---- MODULE Spec2Model ----
(***************************************************************************)
(* Model of the verified-operation handlers (immudb/handler/safeGet.py,    *)
(* immu/handler/safeSet.py), of the session/database management of       *)
(* ImmudbClient and of its ManagedSession (immudb/client.py).              *)
(*                                                                         *)
(* Digests are symbolic: a digest is the record of what was hashed, so two *)
(* digests are equal exactly when their pre-images are (collision          *)
(* resistance).  A Merkle proof is the pair (leaf it was built for, root   *)
(* it reconstructs).                                                       *)
(***************************************************************************)
EXTENDS Integers, Sequences, FiniteSets, TLC

VARIABLES
    rs,        \* the RootService: the trust-anchor cache
    calls,     \* per thread, the handler call it is making
    accepted,  \* the highest txId rs.set has stored so far
    client,    \* the ImmudbClient object
    lastOp,    \* the call the client has just made, if it has anything to tell
    initLog,   \* the last calls of RootService.init
    session,   \* the ManagedSession object and its two threads
    waiting    \* the call of the client that waits for its RPC, if any

hvars == <<rs, calls, accepted>>
cvars == <<client, lastOp, initLog, session, waiting>>
vars == <<rs, calls, accepted, client, lastOp, initLog, session, waiting>>

(* ------------------------------ bounds --------------------------------- *)

\* highest transaction id of the ledger
MaxTx == 3
\* number of call slots (threads) that may run a handler
NumCalls == 2
\* highest value of int(time()) drawn for a safeSet request
MaxTime == 1
\* how many calls of RootService.init are remembered
MaxInitLog == 2

Calls == 1..NumCalls
TxIds == 1..MaxTx
Keys == {"k1", "k2"}

None == [none |-> TRUE]

Min(a, b) == IF a <= b THEN a ELSE b
Max(a, b) == IF a >= b THEN a ELSE b

(* ----------------- digests and encodings (store, item) ----------------- *)

\* store.EncodeKV(key, value): the plain encoding covers (key, value)
EncodeKV(key, value) == [tag |-> "kv", a |-> key, b |-> value, n |-> 0]

\* store.EncodeReference(key, referencedKey, atTx)
EncodeReference(key, referencedKey, atTx) ==
    [tag |-> "ref", a |-> key, b |-> referencedKey, n |-> atTx]

\* kv.Digest(): the leaf digest of an encoded entry
Digest(enc) == [h |-> enc]

\* TxMetadata.alh(): accumulated linear hash, a function of the metadata fields
alh(md) == [h |-> [tag |-> "alh", id |-> md.id, eH |-> md.eH]]

\* store.VerifyInclusion(proof, digest, root): the root rebuilt from `digest`
\* along the audit path equals `root`
VerifyInclusion(proof, digest, root) ==
    /\ proof.leaf = digest
    /\ proof.root = root

\* store.VerifyDualProof(proof, sourceTxID, targetTxID, sourceAlh, targetAlh)
VerifyDualProof(proof, sourceTxID, targetTxID, sourceAlh, targetAlh) ==
    /\ proof.sourceTxMetadata.id = sourceTxID
    /\ proof.targetTxMetadata.id = targetTxID
    /\ sourceTxID # 0
    /\ sourceTxID <= targetTxID
    /\ sourceAlh = alh(proof.sourceTxMetadata)
    /\ targetAlh = alh(proof.targetTxMetadata)
    /\ proof.linearOk

(* ------------------- the ledger the server answers from ---------------- *)

\* entries root of transaction i as the honest ledger holds it
EH(i) == [h |-> [tag |-> "eH", n |-> i]]
\* a corrupted entries root
BadEH(i) == [h |-> [tag |-> "eH", n |-> 0 - i]]
\* metadata of transaction i
MD(i) == [id |-> i, eH |-> EH(i)]
\* the value the ledger stores under a key, and a value it does not store
Val(k) == IF k = "k1" THEN "v1" ELSE "v2"
OtherVal(k) == IF k = "k1" THEN "v2" ELSE "v1"
\* the server's signature over the state of transaction i
Sig(i) == [signed |-> i]
\* the state of the ledger at transaction i
StateAt(i) == [txId |-> i, txHash |-> alh(MD(i)), signature |-> Sig(i)]
\* the same as the immu package holds it: schema_pb2.Root(index, root)
RootAt(i) == [index |-> i, root |-> alh(MD(i))]

(* ------------------------ RootService (the cache) ---------------------- *)

\* RootService(): nothing is cached yet
NewRootService == [key |-> None, db |-> "", state |-> None]

\* rs.get()
RsGet(r) == r.state

\* the transaction a cached state is of: txId of an ImmutableState (immudb
\* package), index of a Root (immu package)
TxOf(state) == IF "txId" \in DOMAIN state THEN state.txId ELSE state.index

\* rs.set(state): a state that is not newer than the stored one is declined
RsSet(r, state) ==
    IF TxOf(state) <= TxOf(r.state) THEN r ELSE [r EXCEPT !.state = state]

(* --------------------- the VerifiableGet RPC (server) ------------------ *)

Shapes == {"plain", "empty", "ref"}
Tampers == {"none", "value", "eH", "txid", "dual"}
\* what the server may do with a request: answer about transaction v with an
\* entry of the given shape, honestly or tampered
\* (at: the transaction of the entry a reference of transaction v points at)
Behaviours ==
    {b \in [v : TxIds, at : TxIds, shape : Shapes, ekey : Keys, rkey : Keys,
            tamper : Tampers] :
        IF b.shape = "ref" THEN b.at <= b.v ELSE b.at = b.v}
HonestBehaviours == {b \in Behaviours : b.tamper = "none" /\ b.shape = "plain"}

\* a bug: the request asks for a proof since the first transaction
VerifiableGetRequestSinceFirst(requestkey, state) ==
    [keyRequest |-> [key |-> requestkey], proveSinceTx |-> 1]

\* schema_pb2.VerifiableGetRequest(keyRequest=KeyRequest(key=requestkey), proveSinceTx=state.txId)
VerifiableGetRequest(requestkey, state) ==
    [keyRequest |-> [key |-> requestkey], proveSinceTx |-> state.txId]

\* service.VerifiableGet(req): the VerifiableEntry the server returns.  The
\* inclusion proof is the one of the entry the ledger holds in transaction v,
\* the dual proof links proveSinceTx and v in ledger order.
VerifiableGet(req, b) ==
    LET s == req.proveSinceTx
        lo == Min(s, b.v)
        hi == Max(s, b.v)
        value == IF b.tamper = "value" THEN OtherVal(b.ekey) ELSE Val(b.ekey)
        entry ==
            CASE b.shape = "plain" ->
                   [tx |-> b.v, key |-> b.ekey, value |-> value, referencedBy |-> None]
              [] b.shape = "empty" ->
                   [tx |-> b.v, key |-> b.ekey, value |-> value,
                    referencedBy |-> [tx |-> 0, key |-> "", atTx |-> 0]]
              [] b.shape = "ref" ->
                   [tx |-> b.at, key |-> b.ekey, value |-> value,
                    referencedBy |-> [tx |-> b.v, key |-> b.rkey, atTx |-> b.at]]
        leaf == IF b.shape = "ref"
                THEN Digest(EncodeReference(b.rkey, b.ekey, b.at))
                ELSE Digest(EncodeKV(b.ekey, Val(b.ekey)))
        \* tamper "txid": the metadata given for the entry's transaction is
        \* labelled with another transaction id
        relabel(md) == IF b.tamper = "txid" THEN [md EXCEPT !.id = md.id + 1] ELSE md
        source == IF s > b.v THEN relabel(MD(lo)) ELSE MD(lo)
        target == IF b.tamper = "eH" THEN [id |-> hi, eH |-> BadEH(hi)]
                  ELSE IF s <= b.v THEN relabel(MD(hi)) ELSE MD(hi)
    IN  [entry |-> entry,
         inclusionProof |-> [leaf |-> leaf, root |-> EH(b.v)],
         verifiableTx |->
            [tx |-> [metadata |-> [ts |-> b.v]],
             dualProof |-> [sourceTxMetadata |-> source,
                            targetTxMetadata |-> target,
                            linearOk |-> b.tamper # "dual"],
             signature |-> Sig(hi)]]

(* ------------------ safeGet.call: the values it computes --------------- *)

\* line 29: the response carries no reference
IsPlain(ventry) ==
    ventry.entry.referencedBy = None \/ ventry.entry.referencedBy.key = ""

\* a bug: the transaction id is taken from the entry also for a reference
vTxOfEntry(ventry) == ventry.entry.tx

\* lines 29-34
vTx(ventry) ==
    IF IsPlain(ventry) THEN ventry.entry.tx ELSE ventry.entry.referencedBy.tx

kv(requestkey, ventry) ==
    IF IsPlain(ventry)
    THEN EncodeKV(requestkey, ventry.entry.value)
    ELSE EncodeReference(ventry.entry.referencedBy.key, ventry.entry.key,
                         ventry.entry.referencedBy.atTx)

\* a bug: the entries root is always taken from the target metadata
ehOfTarget(state, ventry) == ventry.verifiableTx.dualProof.targetTxMetadata.eH

\* lines 36-47: the direction of the dual proof
eh(state, ventry) ==
    IF state.txId <= vTx(ventry)
    THEN ventry.verifiableTx.dualProof.targetTxMetadata.eH
    ELSE ventry.verifiableTx.dualProof.sourceTxMetadata.eH

sourceid(state, ventry) ==
    IF state.txId <= vTx(ventry) THEN state.txId ELSE vTx(ventry)

sourcealh(state, ventry) ==
    IF state.txId <= vTx(ventry)
    THEN state.txHash
    ELSE alh(ventry.verifiableTx.dualProof.sourceTxMetadata)

targetid(state, ventry) ==
    IF state.txId <= vTx(ventry) THEN vTx(ventry) ELSE state.txId

targetalh(state, ventry) ==
    IF state.txId <= vTx(ventry)
    THEN alh(ventry.verifiableTx.dualProof.targetTxMetadata)
    ELSE state.txHash

\* line 49
InclusionVerifies(requestkey, state, ventry) ==
    VerifyInclusion(ventry.inclusionProof, Digest(kv(requestkey, ventry)),
                    eh(state, ventry))

\* lines 52-57
DualVerifies(state, ventry) ==
    VerifyDualProof(ventry.verifiableTx.dualProof,
                    sourceid(state, ventry), targetid(state, ventry),
                    sourcealh(state, ventry), targetalh(state, ventry))

\* a bug: the state handed to rs.set carries the source id of the dual proof
NewStateFromSource(state, ventry) ==
    [txId |-> sourceid(state, ventry),
     txHash |-> targetalh(state, ventry),
     signature |-> ventry.verifiableTx.signature]

\* lines 61-65: the state handed to rs.set
NewState(state, ventry) ==
    [txId |-> targetid(state, ventry),
     txHash |-> targetalh(state, ventry),
     signature |-> ventry.verifiableTx.signature]

\* lines 68-71
refkey(ventry) ==
    IF ventry.entry.referencedBy # None /\ ventry.entry.referencedBy.key # ""
    THEN ventry.entry.referencedBy.key
    ELSE None

\* lines 72-79
SafeGetResponse(ventry, verifies) ==
    [index |-> vTx(ventry),
     key |-> ventry.entry.key,
     value |-> ventry.entry.value,
     timestamp |-> ventry.verifiableTx.tx.metadata.ts,
     verified |-> verifies,
     refkey |-> refkey(ventry)]

(* --------------------- the SafeSetSV RPC (server) ---------------------- *)

SetTampers == {"none", "leaf", "inclusion", "consistency"}
SetBehaviours == [v : TxIds, tamper : SetTampers]

\* schema_pb2.Content(timestamp=int(time()), payload=request.kv.value)
Content(ts, payload) == [timestamp |-> ts, payload |-> payload]

\* lines 22-30: SafeSetSVOptions(skv=StructuredKeyValue(key, content), rootIndex=Index(root.index))
SafeSetSVOptions(key, content, root) ==
    [skv |-> [key |-> key, value |-> content], rootIndex |-> [index |-> root.index]]

\* item.digest(index, key, value): the leaf digest of an item
ItemDigest(index, key, value) ==
    [h |-> [tag |-> "item", index |-> index, key |-> key, value |-> value]]

\* service.SafeSetSV(rawRequest): the proof the server returns for the item it
\* stored at index v
SafeSetSV(rawRequest, b) ==
    LET s == rawRequest.rootIndex.index
        stored == ItemDigest(b.v, rawRequest.skv.key, rawRequest.skv.value)
        other == ItemDigest(b.v, rawRequest.skv.key, Content(0, ""))
    IN  [index |-> b.v,
         leaf |-> IF b.tamper = "leaf" THEN other ELSE stored,
         root |-> alh(MD(b.v)),
         at |-> b.v,
         inclusionPath |->
            [leaf |-> IF b.tamper = "inclusion" THEN other ELSE stored,
             root |-> alh(MD(b.v))],
         consistencyPath |->
            [first |-> IF b.tamper = "consistency" THEN alh(MD(0)) ELSE alh(MD(s)),
             firstIndex |-> s,
             second |-> alh(MD(b.v))]]

(* ------------------ safeSet.call: the values it computes --------------- *)

\* line 33
digest(msg, rawRequest) ==
    ItemDigest(msg.index, rawRequest.skv.key, rawRequest.skv.value)

\* line 34: the proof is for the item that was sent
LeafMatches(msg, rawRequest) == msg.leaf = digest(msg, rawRequest)

\* proofs.verify(msg, leaf, root): inclusion of the leaf in msg.root and
\* consistency of msg.root with the cached root
ProofsVerify(msg, leaf, root) ==
    /\ msg.inclusionPath.leaf = leaf
    /\ msg.inclusionPath.root = msg.root
    /\ msg.consistencyPath.firstIndex = root.index
    /\ msg.consistencyPath.first = root.root
    /\ msg.consistencyPath.second = msg.root
    /\ root.index <= msg.at

\* line 37
verified(msg, root) == ProofsVerify(msg, msg.leaf, root)

\* lines 40-43
toCache(msg) == [index |-> msg.index, root |-> msg.root]

\* lines 50-58
SafeSetResponse(msg, isVerified) ==
    [index |-> msg.index,
     leaf |-> msg.leaf,
     root |-> msg.root,
     at |-> msg.at,
     inclusionPath |-> msg.inclusionPath,
     consistencyPath |-> msg.consistencyPath,
     verified |-> isVerified]

(* ----------------------------- the calls ------------------------------- *)

Ops == {"safeGet", "safeSet"}
\* what the RPC layer may raise
RpcErrors == {"RpcError:UNAVAILABLE", "RpcError:DEADLINE_EXCEEDED"}

\* no error was raised
NoError == ""

NoOut == [kind |-> "none"]
Returned(resp) == [kind |-> "returned", resp |-> resp]
Raised(error) == [kind |-> "raised", error |-> error]

IdleCall ==
    [op |-> "safeGet", pc |-> "idle", key |-> "k1", ts |-> 0, state |-> None,
     req |-> None, rpcs |-> 0, resp |-> None, rpcError |-> NoError,
     checked |-> FALSE, out |-> NoOut, didSet |-> FALSE, after |-> None]

\* the request a safeSet call sends (lines 24-30)
rawRequest(call) ==
    SafeSetSVOptions(call.key, Content(call.ts, Val(call.key)), call.state)

\* the request a call sends: safeGet.call lines 21-24, safeSet.call lines 22-30
Request(call) ==
    IF call.op = "safeGet"
    THEN VerifiableGetRequest(call.key, call.state)
    ELSE rawRequest(call)

\* a call has ended: it returned or raised
Finish(call, out, cache) ==
    [call EXCEPT !.pc = "done", !.out = out, !.after = RsGet(cache)]

\* the cached object has the field the handler reads from it: state.txId
\* (safeGet.call line 23), root.index (safeSet.call line 22)
HasTxField(op, state) ==
    IF op = "safeGet" THEN "txId" \in DOMAIN state ELSE "index" \in DOMAIN state

\* safeGet.call lines 20-24 / safeSet.call lines 21-30: the call reads the
\* cache and builds its request; a cached object of the other package has
\* not the field that is read, and the call ends there with AttributeError.
\* `again` tells whether a thread whose call has ended makes another one.
Start(c, ops, keys, again) ==
    /\ calls[c].pc = "idle" \/ (again /\ calls[c].pc = "done")
    /\ \E op \in ops, key \in keys, ts \in 1..MaxTime :
         LET call == [IdleCall EXCEPT !.op = op, !.pc = "rpc", !.key = key,
                                      !.ts = IF op = "safeSet" THEN ts ELSE 0,
                                      !.state = RsGet(rs)]
         IN  calls' = [calls EXCEPT ![c] =
                         IF HasTxField(op, call.state)
                         THEN [call EXCEPT !.req = Request(call)]
                         ELSE Finish(call, Raised("AttributeError"), rs)]
    /\ UNCHANGED <<rs, accepted, client, lastOp, initLog, session, waiting>>

\* safeGet.call line 25: the RPC returns a VerifiableEntry
GetRpcReturn(c, behaviours) ==
    /\ calls[c].pc = "rpc"
    /\ calls[c].op = "safeGet"
    /\ \E b \in behaviours :
         calls' = [calls EXCEPT ![c].pc = "verify",
                     ![c].rpcs = calls[c].rpcs + 1,
                     ![c].resp = VerifiableGet(calls[c].req, b)]
    /\ UNCHANGED <<rs, accepted, client, lastOp, initLog, session, waiting>>

\* safeSet.call line 32: the RPC returns a proof
SetRpcReturn(c) ==
    /\ calls[c].pc = "rpc"
    /\ calls[c].op = "safeSet"
    /\ \E b \in SetBehaviours :
         calls' = [calls EXCEPT ![c].pc = "verify",
                     ![c].rpcs = calls[c].rpcs + 1,
                     ![c].resp = SafeSetSV(calls[c].req, b)]
    /\ UNCHANGED <<rs, accepted, client, lastOp, initLog, session, waiting>>

\* a bug: the RPC's error is caught and another one raised in its place
PropagateWrapped(e) == Raised("VerificationException")

\* safeGet.call line 25 / safeSet.call line 32: no try/except around the
\* RPC, what it raises is what the caller gets
Propagate(e) == Raised(e)

RpcRaise(c) ==
    /\ calls[c].pc = "rpc"
    /\ \E e \in RpcErrors :
         calls' = [calls EXCEPT ![c] =
                     Finish([calls[c] EXCEPT !.rpcError = e,
                                             !.rpcs = calls[c].rpcs + 1],
                            Propagate(e), rs)]
    /\ UNCHANGED <<rs, accepted, client, lastOp, initLog, session, waiting>>

\* a bug: the result of VerifyDualProof is not looked at
SafeGetVerdictNoDual(requestkey, state, ventry) ==
    IF ~InclusionVerifies(requestkey, state, ventry) THEN "inclusion"
    ELSE "verified"

\* safeGet.call lines 49-59: which check stops the call, if any
SafeGetVerdict(requestkey, state, ventry) ==
    IF ~InclusionVerifies(requestkey, state, ventry) THEN "inclusion"
    ELSE IF ~DualVerifies(state, ventry) THEN "dual"
    ELSE "verified"

GetVerify(c) ==
    /\ calls[c].pc = "verify"
    /\ calls[c].op = "safeGet"
    /\ LET call == [calls[c] EXCEPT !.checked = TRUE]
       IN  calls' = [calls EXCEPT ![c] =
                       IF SafeGetVerdict(call.key, call.state, call.resp) = "verified"
                       THEN [call EXCEPT !.pc = "set"]
                       ELSE Finish(call, Raised("VerificationException"), rs)]
    /\ UNCHANGED <<rs, accepted, client, lastOp, initLog, session, waiting>>

\* safeSet.call lines 33-39: which way the call goes after the RPC
SafeSetVerdict(msg, request, root) ==
    IF ~LeafMatches(msg, request) THEN "mismatch"
    ELSE IF verified(msg, root) THEN "verified"
    ELSE "unverified"

\* safeSet.call lines 33-39 and 50-58
SetVerify(c) ==
    /\ calls[c].pc = "verify"
    /\ calls[c].op = "safeSet"
    /\ LET call == [calls[c] EXCEPT !.checked = TRUE]
           verdict == SafeSetVerdict(call.resp, rawRequest(call), call.state)
       IN  calls' = [calls EXCEPT ![c] =
                       CASE verdict = "mismatch" ->
                              Finish(call,
                                     Raised("Exception:Proof does not match the given item."),
                                     rs)
                         [] verdict = "verified" -> [call EXCEPT !.pc = "set"]
                         [] verdict = "unverified" ->
                              Finish(call, Returned(SafeSetResponse(call.resp, FALSE)), rs)]
    /\ UNCHANGED <<rs, accepted, client, lastOp, initLog, session, waiting>>

\* safeGet.call lines 61-66: rs.set(state), then on to breakpoint()
GetSet(c) ==
    /\ calls[c].pc = "set"
    /\ calls[c].op = "safeGet"
    /\ rs' = RsSet(rs, NewState(calls[c].state, calls[c].resp))
    /\ accepted' = Max(accepted, TxOf(rs'.state))
    /\ calls' = [calls EXCEPT ![c].pc = "breakpoint", ![c].didSet = TRUE]
    /\ UNCHANGED cvars

\* safeSet.call lines 40-58: rs.set(toCache), then the response is returned
SetSet(c) ==
    /\ calls[c].pc = "set"
    /\ calls[c].op = "safeSet"
    /\ rs' = RsSet(rs, toCache(calls[c].resp))
    /\ accepted' = Max(accepted, TxOf(rs'.state))
    /\ calls' = [calls EXCEPT ![c] =
                   Finish([calls[c] EXCEPT !.didSet = TRUE],
                          Returned(SafeSetResponse(calls[c].resp, TRUE)), rs')]
    /\ UNCHANGED cvars

\* safeGet.call line 67, breakpoint(): sys.breakpointhook is disabled and the
\* call goes on to return (lines 68-79), or the debugger takes over
Breakpoint(c) ==
    /\ calls[c].pc = "breakpoint"
    /\ \/ calls' = [calls EXCEPT ![c] =
                      Finish(calls[c], Returned(SafeGetResponse(calls[c].resp, TRUE)), rs)]
       \/ calls' = [calls EXCEPT ![c].pc = "pdb"]
    /\ UNCHANGED <<rs, accepted, client, lastOp, initLog, session, waiting>>

\* the debugger is told to continue: lines 68-79
PdbContinue(c) ==
    /\ calls[c].pc = "pdb"
    /\ calls' = [calls EXCEPT ![c] =
                   Finish(calls[c], Returned(SafeGetResponse(calls[c].resp, TRUE)), rs)]
    /\ UNCHANGED <<rs, accepted, client, lastOp, initLog, session, waiting>>

\* the debugger is told to quit, or its input is at end of file: bdb.BdbQuit
PdbQuit(c) ==
    /\ calls[c].pc = "pdb"
    /\ calls' = [calls EXCEPT ![c] = Finish(calls[c], Raised("BdbQuit"), rs)]
    /\ UNCHANGED <<rs, accepted, client, lastOp, initLog, session, waiting>>

(* ----------------------------- ImmudbClient --------------------------- *)

\* client.py lines 52-53: the url of a client made without one
DefaultUrl == "localhost:3322"
Urls == {DefaultUrl, "otherhost:3322"}
DbNames == {"defaultdb", "db1"}

\* Python values: a bytes object and a str object with the same characters
\* are different objects
Bytes(s) == [type |-> "bytes", s |-> s]
Str(s) == [type |-> "str", s |-> s]
\* what login may be given as database, and what useDatabase may (a str makes
\* the protobuf constructor raise TypeError)
DbArgs == {Bytes(n) : n \in DbNames} \cup {Str(n) : n \in DbNames}
BytesArgs == {Bytes(n) : n \in DbNames}
\* what the constructor may be given as timeout
Timeouts == {None, [seconds |-> 5]}
\* the verifying key loadKey reads
PublicKey == [pem |-> "public key"]

\* str(x), as "{}".format(x) writes it
PyStr(x) == IF x.type = "bytes" THEN "b'" \o x.s \o "'" ELSE x.s

\* client.py lines 141-144
ConvertToBytes(what) == IF what.type # "bytes" THEN Bytes(what.s) ELSE what

\* grpcutils.header_adder_interceptor(name, value), timeout_adder_interceptor(t)
HeaderAdder(name, value) == [kind |-> "header", name |-> name, value |-> value]
TimeoutAdder(t) == [kind |-> "timeout", name |-> "timeout", value |-> t]

\* grpc.insecure_channel(immudUrl), lines 58-62
Channel(immudUrl) == [target |-> immudUrl]

\* self._rs while it refers to the RootService (None after shutdown)
RootServiceRef == [object |-> "RootService"]

\* client.py lines 116-121: sets self.intercept_channel and returns the new
\* stub; self._stub is not assigned here.  With no channel (after shutdown)
\* and no interceptor the stub is made for None itself and line 118 raises;
\* interceptors wrap the missing channel, and the stub made for them raises
\* only when an RPC is issued
get_intercepted_stub(cl) ==
    LET allInterceptors == cl.headersInterceptors \o cl.clientInterceptors
        raised == cl.channel = None /\ allInterceptors = <<>>
    IN  [self |-> IF raised THEN cl
                  ELSE [cl EXCEPT !.intercept_channel =
                                     [interceptors |-> allInterceptors]],
         newStub |-> [interceptors |-> allInterceptors, channel |-> cl.channel],
         raised |-> raised]

\* client.py lines 104-114: sets self.headersInterceptors, returns the stub
\* of get_intercepted_stub
set_token_header_interceptor(cl, response) ==
    get_intercepted_stub(
        [cl EXCEPT !.headersInterceptors =
                      <<HeaderAdder("authorization", response.token)>>])

\* client.py lines 98-102: sets self.headersInterceptors, returns the stub
\* of get_intercepted_stub
set_session_id_interceptor(cl, openSessionResponse) ==
    get_intercepted_stub(
        [cl EXCEPT !.headersInterceptors =
                      <<HeaderAdder("sessionid", openSessionResponse.sessionID)>>])

\* self._stub = <the stub a call of one of the three functions returned>
\* (lines 175, 180, 198, 274, 398)
AssignStub(r) == IF r.raised THEN r.self ELSE [r.self EXCEPT !.stub = r.newStub]

\* client.py lines 192-197: _resetStub up to the assignment of the stub of
\* the bare channel; with no channel (after shutdown) line 197 raises and the
\* stub stays
ResetRaw(cl) ==
    [cl EXCEPT !.headersInterceptors = <<>>,
               !.clientInterceptors =
                  IF cl.timeout # None THEN <<TimeoutAdder(cl.timeout)>> ELSE <<>>,
               !.stub = IF cl.channel = None THEN cl.stub
                        ELSE [interceptors |-> <<>>, channel |-> cl.channel]]

\* client.py lines 191-198; with no channel line 197 raises and line 198 is
\* not reached
ResetStub(cl) ==
    IF cl.channel = None THEN ResetRaw(cl)
    ELSE AssignStub(get_intercepted_stub(ResetRaw(cl)))

\* client.py lines 44-71, without a public key file
NewClient(immudUrl, timeout) ==
    ResetStub([url |-> immudUrl, timeout |-> timeout, vk |-> None,
               channel |-> Channel(immudUrl), intercept_channel |-> None,
               rs |-> RootServiceRef,
               headersInterceptors |-> <<>>, clientInterceptors |-> <<>>,
               stub |-> [interceptors |-> <<>>, channel |-> Channel(immudUrl)]])

\* the server: the credentials it hands out name the database they are for
LoginResponse == [token |-> [bearer |-> "defaultdb"]]
UseDatabaseResponse(name) == [token |-> [bearer |-> name]]
OpenSessionResponse(name) == [sessionID |-> [bearer |-> name]]

\* the database the server serves a stub's requests from: the one its
\* credentials are for ("" without credentials: the request is refused)
AttachedDb(stub) ==
    IF \E k \in DOMAIN stub.interceptors : stub.interceptors[k].kind = "header"
    THEN LET k == CHOOSE k \in DOMAIN stub.interceptors :
                     stub.interceptors[k].kind = "header"
         IN  stub.interceptors[k].value.bearer
    ELSE ""

\* the last transaction of the database when a client initialises its cache:
\* the one the verified operations of the client are then served from, or
\* the one before it
InitTxIds == {MaxTx - 1, MaxTx}

\* RootService.init(dbname, service): the cache is keyed by dbname and holds
\* the current state of the database the service is attached to
RsInit(dbname, stub, i) ==
    [key |-> dbname, db |-> AttachedDb(stub), state |-> StateAt(i)]

\* the two packages of the repository, each with its RootService and its
\* handlers: immudb (safeGet.call) and immu (safeSet.call)
Packages == {"immudb", "immu"}

\* the cache after init, as the RootService of each package holds it
RsInitOf(package, dbname, stub, i) ==
    IF package = "immudb"
    THEN RsInit(dbname, stub, i)
    ELSE [RsInit(dbname, stub, i) EXCEPT !.state = RootAt(i)]

\* client.py line 182: the key login gives RootService.init
LoginKey(url, database) == Str(url \o "/" \o PyStr(database))

\* client.py line 399: the key useDatabase gives RootService.init
UseDatabaseKey(url, dbName) == dbName

\* client.py lines 160-175: the client after the Login RPC has returned
AfterLogin(cl) == AssignStub(set_token_header_interceptor(cl, LoginResponse))

\* client.py lines 177-180: the client after the UseDatabase RPC of login has
\* returned
AfterUseDatabase(cl, database) ==
    AssignStub(set_token_header_interceptor(
                   cl, UseDatabaseResponse(ConvertToBytes(database).s)))

\* client.py lines 160-180: the client after Login and UseDatabase
LoginClient(cl, database) == AfterUseDatabase(AfterLogin(cl), database)

\* the record of one RootService.init
Logged(log, via, url, name, key) ==
    LET all == Append(log, [via |-> via, url |-> url, name |-> name, key |-> key])
    IN  IF Len(all) > MaxInitLog THEN Tail(all) ELSE all

NoOp == [name |-> "none"]
\* a call of the client that ended with an exception
RaisedIn(name, exception) == [name |-> name, raised |-> exception]

\* no call of the client waits for its RPC
NoCall == [method |-> "none"]

\* One thread calls the methods of the client that issue an RPC, one call at
\* a time: `waiting` holds the call that has issued its RPC and not yet got
\* the answer.  Meanwhile another thread may load a key, shut the client
\* down, call the interceptor functions or make a verified operation.  A
\* handler of a verified operation is given self._stub and self._rs when it
\* is called and keeps them, so a shutdown while it runs does not change
\* what it does.

\* what issuing an RPC through the stub the client holds raises: a stub made
\* for no channel (made after shutdown) has nothing to send with, a stub of
\* the channel shutdown has closed refuses the call (lines 91-92)
IssueError(cl) ==
    IF cl.stub.channel = None THEN "AttributeError"
    ELSE IF cl.channel = None THEN "ValueError"
    ELSE NoError

\* ImmudbClient(immudUrl, rs=rs, timeout=timeout), lines 44-71: without rs
\* the client gets a RootService of its own (line 65), with rs it uses the
\* one it is given (line 67), here the one the client before it used
Construct(urls, timeouts) ==
    /\ waiting = NoCall
    /\ \E u \in urls, t \in timeouts : client' = NewClient(u, t)
    /\ \/ rs' = NewRootService
       \/ rs' = rs
    /\ lastOp' = NoOp
    /\ UNCHANGED <<initLog, calls, accepted, session, waiting>>

\* client.py lines 73-87
LoadKey ==
    /\ client' = [client EXCEPT !.vk = PublicKey]
    /\ lastOp' = NoOp
    /\ UNCHANGED <<rs, initLog, calls, accepted, session, waiting>>

\* client.py lines 89-96; on a client already shut down line 92 raises
\* (None has no close)
Shutdown ==
    /\ IF client.channel # None
       THEN /\ client' = [client EXCEPT !.channel = None,
                                        !.intercept_channel = None,
                                        !.rs = None]
            /\ lastOp' = NoOp
       ELSE /\ client' = client
            /\ lastOp' = RaisedIn("shutdown", "AttributeError")
    /\ UNCHANGED <<rs, initLog, calls, accepted, session, waiting>>

\* set_token_header_interceptor, set_session_id_interceptor and
\* get_intercepted_stub called from outside the client (lines 98-121): the
\* interceptors change, the stub the call returns is not the client's
CallInterceptorFunction ==
    /\ \/ \E n \in DbNames :
            /\ client' = set_token_header_interceptor(
                             client, UseDatabaseResponse(n)).self
            /\ lastOp' = NoOp
       \/ \E n \in DbNames :
            /\ client' = set_session_id_interceptor(
                             client, OpenSessionResponse(n)).self
            /\ lastOp' = NoOp
       \/ /\ client' = get_intercepted_stub(client).self
          /\ lastOp' = IF get_intercepted_stub(client).raised
                       THEN RaisedIn("get_intercepted_stub", "AttributeError")
                       ELSE NoOp
    /\ UNCHANGED <<rs, initLog, calls, accepted, session, waiting>>

\* a method issues its RPC through self._stub: the call waits for the answer,
\* or the stub raises at once and the method ends there
IssueRpc(call, error) ==
    /\ waiting = NoCall
    /\ IF error = NoError
       THEN /\ waiting' = call
            /\ lastOp' = NoOp
       ELSE /\ waiting' = waiting
            /\ lastOp' = RaisedIn(call.method, error)
    /\ UNCHANGED <<client, rs, initLog, calls, accepted, session>>

\* the RPC a method waits for raises (the server refuses, the deadline
\* passes, the channel is closed meanwhile): the method ends there
RpcRaises(method) ==
    /\ waiting.method = method
    /\ waiting' = NoCall
    /\ lastOp' = RaisedIn(method, "RpcError")
    /\ UNCHANGED <<client, rs, initLog, calls, accepted, session>>

\* client.py lines 160-171: login issues the Login RPC; the ValueError of a
\* closed channel becomes an Exception (lines 169-171)
LoginIssue ==
    \E database \in DbArgs :
        IssueRpc([method |-> "login", rpc |-> "Login", database |-> database],
                 IF IssueError(client) = "ValueError" THEN "Exception"
                 ELSE IssueError(client))

\* client.py lines 168-179: the Login RPC returns, the stub that carries its
\* token is assigned (line 175) and the UseDatabase RPC is issued through it
\* (line 179); or the Login RPC raises
LoginReturn ==
    \/ /\ waiting.method = "login" /\ waiting.rpc = "Login"
       /\ client' = AfterLogin(client)
       /\ IF IssueError(client') = NoError
          THEN /\ waiting' = [waiting EXCEPT !.rpc = "UseDatabase"]
               /\ lastOp' = NoOp
          ELSE /\ waiting' = NoCall
               /\ lastOp' = RaisedIn("login", IssueError(client'))
       /\ UNCHANGED <<rs, initLog, calls, accepted, session>>
    \/ /\ waiting.method = "login" /\ waiting.rpc = "Login"
       /\ RpcRaises("login")

\* client.py lines 179-183: the UseDatabase RPC of login returns, the stub is
\* replaced (line 180) and the cache initialised (line 182; on a client shut
\* down meanwhile self._rs is None and the line raises); or the RPC raises
\* and login ends with the stub of line 175 and the cache as it was.
\* `recorded` says whether the history of RootService.init calls is kept
LoginUseDatabaseReturn(recorded) ==
    \/ /\ waiting.method = "login" /\ waiting.rpc = "UseDatabase"
       /\ waiting' = NoCall
       /\ client' = AfterUseDatabase(client, waiting.database)
       /\ IF client.rs # None
          THEN /\ \E i \in InitTxIds :
                    rs' = RsInit(LoginKey(client.url, waiting.database),
                                 client'.stub, i)
               /\ initLog' = IF recorded
                             THEN Logged(initLog, "login", client.url,
                                         ConvertToBytes(waiting.database).s,
                                         LoginKey(client.url, waiting.database))
                             ELSE initLog
               /\ lastOp' = NoOp
          ELSE /\ lastOp' = RaisedIn("login", "AttributeError")
               /\ UNCHANGED <<rs, initLog>>
       /\ UNCHANGED <<calls, accepted, session>>
    \/ /\ waiting.method = "login" /\ waiting.rpc = "UseDatabase"
       /\ RpcRaises("login")

\* client.py line 188: logout issues the Logout RPC
LogoutIssue == IssueRpc([method |-> "logout"], IssueError(client))

\* the method's RPC returns and _resetStub runs (lines 189, 281); on a client
\* shut down meanwhile line 197 raises
ResetAfter(method) ==
    /\ waiting.method = method
    /\ AttachedDb(client.stub) # ""
    /\ waiting' = NoCall
    /\ client' = ResetStub(client)
    /\ lastOp' = IF client.channel = None
                 THEN RaisedIn(method, "AttributeError")
                 ELSE NoOp
    /\ UNCHANGED <<rs, initLog, calls, accepted, session>>

\* client.py lines 188-189: the Logout RPC returns and the stub is reset; or
\* the RPC raises (the stub carried no credentials)
LogoutReturn ==
    \/ ResetAfter("logout")
    \/ RpcRaises("logout")

\* client.py lines 263-273: openSession issues the OpenSession RPC
OpenSessionIssue ==
    \E database \in DbArgs :
        IssueRpc([method |-> "openSession",
                  databaseName |-> ConvertToBytes(database)],
                 IssueError(client))

\* client.py lines 272-275: the OpenSession RPC returns and the stub that
\* carries the session id is assigned; or the RPC raises
OpenSessionReturn ==
    \/ /\ waiting.method = "openSession"
       /\ waiting' = NoCall
       /\ client' = AssignStub(set_session_id_interceptor(
                        client, OpenSessionResponse(waiting.databaseName.s)))
       /\ lastOp' = NoOp
       /\ UNCHANGED <<rs, initLog, calls, accepted, session>>
    \/ RpcRaises("openSession")

\* client.py line 280: closeSession issues the CloseSession RPC
CloseSessionIssue == IssueRpc([method |-> "closeSession"], IssueError(client))

\* client.py lines 280-281: the CloseSession RPC returns and the stub is
\* reset; or the RPC raises (the stub carried no credentials)
CloseSessionReturn ==
    \/ ResetAfter("closeSession")
    \/ RpcRaises("closeSession")

\* client.py lines 395-396: useDatabase issues the UseDatabase RPC
UseDatabaseIssue ==
    \E dbName \in BytesArgs :
        IssueRpc([method |-> "useDatabase", dbName |-> dbName], IssueError(client))

\* client.py lines 396-400: the RPC returns, the stub is replaced (line 398)
\* and the cache initialised (line 399; on a client shut down meanwhile
\* self._rs is None and the line raises); or the RPC raises (the stub
\* carried no credentials)
UseDatabaseReturn(recorded) ==
    \/ /\ waiting.method = "useDatabase"
       /\ AttachedDb(client.stub) # ""
       /\ waiting' = NoCall
       /\ client' = AssignStub(set_token_header_interceptor(
                        client, UseDatabaseResponse(waiting.dbName.s)))
       /\ IF client.rs # None
          THEN /\ \E i \in InitTxIds :
                    rs' = RsInit(UseDatabaseKey(client.url, waiting.dbName),
                                 client'.stub, i)
               /\ initLog' = IF recorded
                             THEN Logged(initLog, "useDatabase", client.url,
                                         waiting.dbName.s,
                                         UseDatabaseKey(client.url, waiting.dbName))
                             ELSE initLog
               /\ lastOp' = NoOp
          ELSE /\ lastOp' = RaisedIn("useDatabase", "AttributeError")
               /\ UNCHANGED <<rs, initLog>>
       /\ UNCHANGED <<calls, accepted, session>>
    \/ RpcRaises("useDatabase")

EntryPoints ==
    {"verifiedSet", "verifiedGet", "verifiedGetSince", "verifiedGetAt", "verifiedZAdd",
     "verifiedTxById", "verifiedSetReference", "safeGet", "safeSet"}

\* the verifying key each entry point passes to its handler
verifying_key(name, vk) ==
    CASE name = "verifiedSet" -> vk            \* line 462
      [] name = "verifiedGet" -> vk            \* line 495
      [] name = "verifiedGetSince" -> vk       \* line 498
      [] name = "verifiedGetAt" -> vk          \* line 501
      [] name = "verifiedZAdd" -> vk           \* line 510
      [] name = "verifiedTxById" -> vk         \* line 526
      [] name = "verifiedSetReference" -> vk   \* line 562
      [] name = "safeGet" -> vk                \* line 730
      [] name = "safeSet" -> None              \* line 744: no key is passed

\* a signature the key does not verify
BadSig == [signed |-> 0]

\* a handler of the verified family, called with self._stub, self._rs and a
\* verifying key or None: it reads the cache (on a client shut down self._rs
\* is None and rs.get() raises), gets from the attached database the state
\* of its last transaction with a signature, checks the signature when it
\* was given a key, and stores the state
VerifiedOp ==
    \E name \in EntryPoints, sigValid \in BOOLEAN :
        LET key == verifying_key(name, client.vk)
            i == MaxTx
            state == [StateAt(i) EXCEPT !.signature = IF sigValid THEN Sig(i) ELSE BadSig]
            rejected == key # None /\ ~sigValid
        IN  /\ IF client.rs = None
               THEN /\ lastOp' = RaisedIn(name, "AttributeError")
                    /\ rs' = rs
               ELSE /\ AttachedDb(client.stub) # ""
                    /\ RsGet(rs) # None
                    /\ rs' = IF rejected THEN rs ELSE RsSet(rs, state)
                    /\ lastOp' = [name |-> name, clientKey |-> client.vk, key |-> key,
                                  readDb |-> rs.db, servedDb |-> AttachedDb(client.stub),
                                  sigChecked |-> key # None,
                                  stored |-> rs' # rs]
            /\ UNCHANGED <<client, initLog, calls, accepted, session, waiting>>

(* --------------------------- ManagedSession ---------------------------- *)

\* the stub sends its RPCs with the client's timeout
HasTimeout(stub) ==
    \E k \in DOMAIN stub.interceptors : stub.interceptors[k].kind = "timeout"

\* client.py lines 225-229, before __enter__; `main` and `thread` are the
\* positions of the thread that uses the session and of keepAliveProcess,
\* `closed`, `atExit` and `lastKeepAlive` record what has happened
NoSession ==
    [keepAliveStarted |-> FALSE, queue |-> 0, main |-> "out", thread |-> "none",
     closed |-> FALSE, atExit |-> "none", lastKeepAlive |-> None]

\* line 246 without its assignment: the flag is left as it is
StoppedNot(this) == this

\* line 246: this.keepAliveStarted = False
Stopped(this) == [this EXCEPT !.keepAliveStarted = FALSE]

\* ManagedSession.__enter__, lines 238-243: openSession, then the thread is
\* started
Enter ==
    /\ session.main = "out"
    /\ \E database \in DbArgs :
         client' = AssignStub(set_session_id_interceptor(
                       client, OpenSessionResponse(ConvertToBytes(database).s)))
    /\ session' = [session EXCEPT !.keepAliveStarted = TRUE, !.main = "in",
                                  !.thread = "test"]
    /\ UNCHANGED <<rs, calls, accepted, lastOp, initLog, waiting>>

\* ManagedSession.__exit__, line 246
ExitClearFlag ==
    /\ session.main = "in"
    /\ session' = [Stopped(session) EXCEPT !.main = "put", !.atExit = session.thread]
    /\ UNCHANGED <<rs, calls, accepted, client, lastOp, initLog, waiting>>

\* ManagedSession.__exit__, line 247: this.queue.put(b'0')
ExitPut ==
    /\ session.main = "put"
    /\ session' = [session EXCEPT !.main = "close", !.queue = session.queue + 1]
    /\ UNCHANGED <<rs, calls, accepted, client, lastOp, initLog, waiting>>

\* ManagedSession.__exit__, line 248, closeSession line 280: the CloseSession
\* RPC is issued and the thread waits for its answer
ExitCloseSessionIssue ==
    /\ session.main = "close"
    /\ session' = [session EXCEPT !.main = "closing", !.closed = TRUE]
    /\ UNCHANGED <<rs, calls, accepted, client, lastOp, initLog, waiting>>

\* closeSession line 280: the CloseSession RPC returns; or it raises and
\* __exit__ ends there
ExitCloseSessionReturn ==
    /\ session.main = "closing"
    /\ \/ session' = [session EXCEPT !.main = "reset"]
       \/ session' = [session EXCEPT !.main = "exited"]
    /\ UNCHANGED <<rs, calls, accepted, client, lastOp, initLog, waiting>>

\* closeSession line 281, _resetStub lines 192-197
ExitResetRaw ==
    /\ session.main = "reset"
    /\ client' = ResetRaw(client)
    /\ session' = [session EXCEPT !.main = "reset198"]
    /\ UNCHANGED <<rs, calls, accepted, lastOp, initLog, waiting>>

\* _resetStub line 198
ExitResetIntercepted ==
    /\ session.main = "reset198"
    /\ client' = AssignStub(get_intercepted_stub(client))
    /\ session' = [session EXCEPT !.main = "exited"]
    /\ UNCHANGED <<rs, calls, accepted, lastOp, initLog, waiting>>

\* manage, line 232: while this.keepAliveStarted
ManageTest ==
    /\ session.thread = "test"
    /\ session' = [session EXCEPT
                      !.thread = IF session.keepAliveStarted THEN "wait" ELSE "dead"]
    /\ UNCHANGED <<rs, calls, accepted, client, lastOp, initLog, waiting>>

\* manage, line 234: this.queue.get(True, this.keepAliveInterval) returns an item
ManageGet ==
    /\ session.thread = "wait"
    /\ session.queue > 0
    /\ session' = [session EXCEPT !.thread = "test", !.queue = session.queue - 1]
    /\ UNCHANGED <<rs, calls, accepted, client, lastOp, initLog, waiting>>

\* manage, lines 234-235: keepAliveInterval has elapsed with no item in the
\* queue, queue.Empty is raised
ManageTimeout ==
    /\ session.thread = "wait"
    /\ session.queue = 0
    /\ session' = [session EXCEPT !.thread = "empty"]
    /\ UNCHANGED <<rs, calls, accepted, client, lastOp, initLog, waiting>>

\* manage line 236, keepAlive line 203: the KeepAlive RPC is issued through
\* the stub the client holds at this moment
ManageKeepAlive ==
    /\ session.thread = "empty"
    /\ session' = [session EXCEPT
                      !.thread = "rpc",
                      !.lastKeepAlive = [stub |-> client.stub,
                                         afterClose |-> session.closed]]
    /\ UNCHANGED <<rs, calls, accepted, client, lastOp, initLog, waiting>>

\* the KeepAlive RPC returns: back to line 232
ManageKeepAliveReturn ==
    /\ session.thread = "rpc"
    /\ session' = [session EXCEPT !.thread = "test"]
    /\ UNCHANGED <<rs, calls, accepted, client, lastOp, initLog, waiting>>

\* the KeepAlive RPC raises: nothing in manage catches it, the thread ends
ManageKeepAliveRaise ==
    /\ session.thread = "rpc"
    /\ session' = [session EXCEPT !.thread = "dead"]
    /\ UNCHANGED <<rs, calls, accepted, client, lastOp, initLog, waiting>>

(* --------------------------- specifications ---------------------------- *)

DefaultDb == Bytes("defaultdb")

\* a client logged in to the default database; the cache after
\* RootService.init holds the state of the ledger, trusted on first use
Init ==
    /\ client = LoginClient(NewClient(DefaultUrl, None), DefaultDb)
    /\ \E i \in TxIds, package \in Packages :
         rs = RsInitOf(package, LoginKey(client.url, DefaultDb), client.stub, i)
    /\ initLog = Logged(<<>>, "login", client.url, DefaultDb.s,
                       LoginKey(client.url, DefaultDb))
    /\ lastOp = NoOp
    /\ calls = [c \in Calls |-> IdleCall]
    /\ accepted = TxOf(rs.state)
    /\ session = NoSession
    /\ waiting = NoCall

\* the thread that makes one call after the other
MainThread == CHOOSE c \in Calls : \A d \in Calls : c <= d

\* calls that do not overlap: one thread, any server
Next ==
    \/ Start(MainThread, Ops, Keys, TRUE)
    \/ GetRpcReturn(MainThread, Behaviours)
    \/ SetRpcReturn(MainThread)
    \/ RpcRaise(MainThread)
    \/ GetVerify(MainThread)
    \/ SetVerify(MainThread)
    \/ GetSet(MainThread)
    \/ SetSet(MainThread)
    \/ Breakpoint(MainThread)
    \/ PdbContinue(MainThread)
    \/ PdbQuit(MainThread)

Spec == Init /\ [][Next]_vars

\* concurrent safeGet calls, one per thread, against a server that answers
\* from its ledger
ConcNext ==
    \E c \in Calls :
        \/ Start(c, {"safeGet"}, {"k1"}, FALSE)
        \/ GetRpcReturn(c, {b \in HonestBehaviours : b.ekey = "k1" /\ b.rkey = "k1"})
        \/ RpcRaise(c)
        \/ GetVerify(c)
        \/ GetSet(c)
        \/ Breakpoint(c)
        \/ PdbContinue(c)
        \/ PdbQuit(c)

ConcSpec == Init /\ [][ConcNext]_vars

\* a client as its constructor leaves it
Constructed(urls, timeouts) ==
    /\ \E u \in urls, t \in timeouts : client = NewClient(u, t)
    /\ rs = NewRootService
    /\ initLog = <<>>
    /\ lastOp = NoOp
    /\ calls = [c \in Calls |-> IdleCall]
    /\ accepted = 0
    /\ session = NoSession
    /\ waiting = NoCall

\* a client of one server, made with or without a timeout
ClientInit == Constructed({DefaultUrl}, Timeouts)

\* the client's session and database management, and its verified operations
ClientNext ==
    \/ Construct({DefaultUrl}, Timeouts)
    \/ LoadKey
    \/ Shutdown
    \/ CallInterceptorFunction
    \/ LoginIssue
    \/ LoginReturn
    \/ LoginUseDatabaseReturn(FALSE)
    \/ LogoutIssue
    \/ LogoutReturn
    \/ OpenSessionIssue
    \/ OpenSessionReturn
    \/ CloseSessionIssue
    \/ CloseSessionReturn
    \/ UseDatabaseIssue
    \/ UseDatabaseReturn(FALSE)
    \/ VerifiedOp

ClientSpec == ClientInit /\ [][ClientNext]_vars

\* a client of one of two servers
KeyInit == Constructed(Urls, {None})

\* clients of two servers made one after the other, their logins and database
\* switches, with the history of the RootService.init calls
KeyNext ==
    \/ Construct(Urls, {None})
    \/ Shutdown
    \/ LoginIssue
    \/ LoginReturn
    \/ LoginUseDatabaseReturn(TRUE)
    \/ UseDatabaseIssue
    \/ UseDatabaseReturn(TRUE)

KeySpec == KeyInit /\ [][KeyNext]_vars

\* a client as its constructor leaves it, and a managed session not yet
\* entered
SessionInit == Constructed(Urls, Timeouts)

\* the steps of keepAliveProcess
ManageStep ==
    \/ ManageTest
    \/ ManageGet
    \/ ManageTimeout
    \/ ManageKeepAlive
    \/ ManageKeepAliveReturn
    \/ ManageKeepAliveRaise

\* one managed session: the thread that enters and leaves the `with` block,
\* and keepAliveProcess
SessionNext ==
    \/ Enter
    \/ ExitClearFlag
    \/ ExitPut
    \/ ExitCloseSessionIssue
    \/ ExitCloseSessionReturn
    \/ ExitResetRaw
    \/ ExitResetIntercepted
    \/ ManageStep

SessionSpec == SessionInit /\ [][SessionNext]_vars

\* keepAliveProcess is scheduled as long as it can run
SessionFairSpec == SessionSpec /\ WF_vars(ManageStep)

(* ------------------------------ properties ----------------------------- *)

Ended(call) == call.pc = "done"

\* the call has a response and one of the handler's checks rejects it
CheckFailed(call) ==
    /\ call.resp # None
    /\ IF call.op = "safeGet"
       THEN ~(InclusionVerifies(call.key, call.state, call.resp)
              /\ DualVerifies(call.state, call.resp))
       ELSE ~(LeafMatches(call.resp, rawRequest(call))
              /\ ProofsVerify(call.resp, digest(call.resp, rawRequest(call)), call.state))

\* C1: in safeGet.call and safeSet.call a failed digest, inclusion or
\* dual/consistency check means rs.set is never called, and the cache holds
\* the state it held before the call; rs.set is reached only after every check
\* has passed.
C1_NoSetAfterFailedCheck ==
    \A c \in Calls :
        /\ CheckFailed(calls[c]) => ~calls[c].didSet
        /\ calls[c].didSet => calls[c].checked /\ ~CheckFailed(calls[c])
        /\ Ended(calls[c]) /\ CheckFailed(calls[c]) => calls[c].after = calls[c].state

\* C1 witness: a safeGet call whose inclusion proof verified and whose dual
\* proof did not has ended, and a cache that could have advanced has not
C1_Witness ==
    \E c \in Calls :
        /\ Ended(calls[c])
        /\ calls[c].op = "safeGet"
        /\ calls[c].checked
        /\ InclusionVerifies(calls[c].key, calls[c].state, calls[c].resp)
        /\ ~DualVerifies(calls[c].state, calls[c].resp)
        /\ vTx(calls[c].resp) > calls[c].state.txId
        /\ RsGet(rs) = calls[c].state

\* C2: every verification failure of safeGet.call and safeSet.call is raised
\* to the caller: no call returns a response after one of its checks failed.
C2_FailedCheckIsRaised ==
    \A c \in Calls :
        Ended(calls[c]) /\ CheckFailed(calls[c]) => calls[c].out.kind = "raised"

\* the largest target id among the calls
MaxTarget ==
    CHOOSE m \in {targetid(calls[c].state, calls[c].resp) : c \in Calls} :
        \A c \in Calls : targetid(calls[c].state, calls[c].resp) <= m

\* C3: with concurrent safeGet calls, in every interleaving of their rs.get,
\* RPC and rs.set steps the cached txId is never below a value rs.set stored
\* before, and once all calls have verified and ended the cache holds the
\* largest target id (targetid, line 62) of the calls.
C3_ConcurrentCallsReachMax ==
    /\ accepted <= TxOf(rs.state)
    /\ (\A c \in Calls : Ended(calls[c]) /\ calls[c].didSet)
          => rs.state.txId = MaxTarget

\* C3 witness: two calls read the same cached state, were answered about
\* strictly increasing transactions above it, and when the call for the
\* smaller one ended the cache held the larger one
C3_Witness ==
    /\ \A c \in Calls : Ended(calls[c]) /\ calls[c].didSet
    /\ calls[1].state = calls[2].state
    /\ calls[1].state.txId < vTx(calls[1].resp)
    /\ vTx(calls[1].resp) < vTx(calls[2].resp)
    /\ \A c \in Calls : c > 2 => vTx(calls[c].resp) > vTx(calls[c - 1].resp)
    /\ calls[1].after.txId = MaxTarget
    /\ rs.state.txId = MaxTarget

\* C4: over safeGet calls that do not overlap, the cached txId never
\* decreases; after a call that returned it is the larger of the txId cached
\* before the call and the transaction id of the returned entry, and after a
\* call that raised it is what it was before the call.
C4_CacheMonotone ==
    /\ accepted <= TxOf(rs.state)
    /\ \A c \in Calls :
          calls[c].op = "safeGet" /\ Ended(calls[c]) =>
              /\ TxOf(calls[c].after) >= TxOf(calls[c].state)
              /\ calls[c].out.kind = "returned" =>
                    TxOf(calls[c].after)
                        = Max(TxOf(calls[c].state), calls[c].out.resp.index)
              /\ calls[c].out.kind = "raised" => calls[c].after = calls[c].state

\* the leaf digests a server may put in its answer to a safeSet request
LeafCandidates(call) ==
    {ItemDigest(call.resp.index, call.key, Content(call.ts, Val(call.key))),
     ItemDigest(call.resp.index, call.key, Content(0, ""))}

\* C5: what a verified operation does never depends on the leaf digest the
\* server supplies: two responses that differ only in it lead safeSet.call the
\* same way.
C5_ServerLeafIgnored ==
    \A c \in Calls :
        calls[c].op = "safeSet" /\ calls[c].pc = "verify" =>
            \A leaf \in LeafCandidates(calls[c]) :
                SafeSetVerdict([calls[c].resp EXCEPT !.leaf = leaf],
                               rawRequest(calls[c]), calls[c].state)
                = SafeSetVerdict(calls[c].resp, rawRequest(calls[c]), calls[c].state)

\* C9: when the RPC raises, safeGet.call and safeSet.call raise that same
\* error, no check runs afterwards and the cache is as it was.
C9_RpcErrorPropagates ==
    \A c \in Calls :
        calls[c].rpcError # NoError =>
            /\ Ended(calls[c])
            /\ calls[c].out = Raised(calls[c].rpcError)
            /\ ~calls[c].checked
            /\ ~calls[c].didSet
            /\ calls[c].after = calls[c].state

\* C9 witness: a timeout has ended a call
C9_Witness ==
    \E c \in Calls :
        /\ calls[c].rpcError = "RpcError:DEADLINE_EXCEEDED"
        /\ Ended(calls[c])
        /\ RsGet(rs) = calls[c].state

\* C10: a safeGet call whose inclusion and dual proofs verify runs to its end:
\* it is never stopped between rs.set and the return, and it ends returning a
\* response with verified = TRUE and the entry's key, value and transaction id.
C10_VerifiedCallReturns ==
    \A c \in Calls :
        calls[c].op = "safeGet" /\ calls[c].resp # None
        /\ InclusionVerifies(calls[c].key, calls[c].state, calls[c].resp)
        /\ DualVerifies(calls[c].state, calls[c].resp)
        => /\ calls[c].pc # "pdb"
           /\ Ended(calls[c]) =>
                 /\ calls[c].out.kind = "returned"
                 /\ calls[c].out.resp.verified
                 /\ calls[c].out.resp.key = calls[c].resp.entry.key
                 /\ calls[c].out.resp.value = calls[c].resp.entry.value
                 /\ calls[c].out.resp.index = vTx(calls[c].resp)

\* a verified entry point has called its handler and the handler has read
\* the cache
Handled(op) == op.name \in EntryPoints /\ "stored" \in DOMAIN op

\* C6: with a verifying key loaded, every verified entry point of the client
\* hands the key to its handler, so that no state is stored in the cache
\* without its signature having been checked.
C6_KeyReachesHandler ==
    Handled(lastOp) /\ lastOp.clientKey # None =>
        /\ lastOp.key = lastOp.clientKey
        /\ lastOp.stored => lastOp.sigChecked

\* C7: the trust state a verified operation reads from the cache is the one
\* initialised for the database the client is attached to.
C7_CacheIsOfAttachedDatabase ==
    Handled(lastOp) => lastOp.readDb = lastOp.servedDb

\* C8: the key RootService.init is given identifies (server, database): the
\* same database of the same server gets the same key through login and
\* through useDatabase, and the same database name on two servers gets two
\* keys.
C8_KeyIdentifiesServerAndDatabase ==
    \A m, n \in DOMAIN initLog :
        initLog[m].name = initLog[n].name =>
            /\ initLog[m].url = initLog[n].url /\ initLog[m].via # initLog[n].via
                  => initLog[m].key = initLog[n].key
            /\ initLog[m].url # initLog[n].url => initLog[m].key # initLog[n].key

\* the state a call handed to rs.set was not newer than the cached one: the
\* cache declined it (calls that do not overlap: the cache still held the
\* state the call had read)
Declined(call) ==
    /\ call.didSet
    /\ IF call.op = "safeGet"
       THEN NewState(call.state, call.resp).txId <= call.state.txId
       ELSE toCache(call.resp).index <= call.state.index

\* C11: a call whose verification succeeded and whose cache update was
\* declined still ends by returning its verified result to the caller.
C11_DeclinedSetStillReturns ==
    \A c \in Calls :
        Ended(calls[c]) /\ Declined(calls[c]) =>
            /\ calls[c].out.kind = "returned"
            /\ calls[c].out.resp.verified

\* C12: in a client constructed with a timeout, the stub the client holds
\* when a step has ended, and the stub every keepAlive RPC of keepAliveProcess
\* has gone through, carry the timeout interceptor.
C12_RpcsCarryTimeout ==
    client.timeout # None =>
        /\ session.main # "reset198" => HasTimeout(client.stub)
        /\ session.lastKeepAlive # None => HasTimeout(session.lastKeepAlive.stub)

\* C13: while the managed session is open, keepAliveProcess is running.
C13_KeepAliveRunsWhileOpen ==
    session.main = "in" => session.thread \notin {"none", "dead"}

\* C18: no keepAlive RPC is issued after __exit__ has issued the CloseSession
\* RPC.
C18_NoKeepAliveAfterClose ==
    session.lastKeepAlive # None => ~session.lastKeepAlive.afterClose

\* __exit__ has been called
ExitCalled ==
    session.main \in {"put", "close", "closing", "reset", "reset198", "exited"}

\* C19: after __exit__ has been called, keepAliveProcess eventually ends.
C19_ThreadEndsAfterExit == ExitCalled ~> session.thread = "dead"

\* C19 witness: __exit__ ran while the thread was handling a timeout (between
\* queue.Empty and the keepAlive RPC), and the thread has ended
C19_Witness ==
    /\ ExitCalled
    /\ session.atExit = "empty"
    /\ session.lastKeepAlive # None
    /\ session.thread = "dead"

\* the call has sent its request and got past its RPC
PastRpc(call) ==
    /\ call.req # None
    /\ call.pc \in {"verify", "set", "breakpoint", "pdb", "done"}

\* C15: a call that reads a trust state of its own package from the cache
\* issues exactly one RPC, and the proof-since reference of its request is
\* the txId (index) of that state, read when the call started; a call given
\* a cached object without that field ends before it issues any RPC.
C15_OneRpcSinceCachedTx ==
    \A c \in Calls :
        /\ calls[c].rpcs = IF PastRpc(calls[c]) THEN 1 ELSE 0
        /\ Ended(calls[c]) /\ calls[c].req = None =>
              calls[c].out = Raised("AttributeError")
        /\ calls[c].req # None =>
              IF calls[c].op = "safeGet"
              THEN calls[c].req.proveSinceTx = calls[c].state.txId
              ELSE calls[c].req.rootIndex.index = calls[c].state.index

\* C15 witness: a call that read a cache at a transaction after the first has
\* ended after its checks, having sent one request
C15_Witness ==
    \E c \in Calls :
        /\ Ended(calls[c])
        /\ calls[c].op = "safeGet"
        /\ calls[c].checked
        /\ calls[c].rpcs = 1
        /\ calls[c].state.txId > 1
        /\ calls[c].req.proveSinceTx = calls[c].state.txId

\* the metadata the response gives for the entry's own transaction
EntryTxMetadata(state, ventry) ==
    IF state.txId <= vTx(ventry)
    THEN ventry.verifiableTx.dualProof.targetTxMetadata
    ELSE ventry.verifiableTx.dualProof.sourceTxMetadata

\* C14: with s the cached txId and v the entry's transaction id, safeGet.call
\* verifies the dual proof from (s, cached txHash) to (v, alh of
\* targetTxMetadata) and the inclusion against targetTxMetadata.eH when
\* s <= v, and from (v, alh of sourceTxMetadata) to (s, cached txHash) and
\* the inclusion against sourceTxMetadata.eH otherwise; the source id is
\* never above the target id, and in a call that verified the entries root
\* used is the one of transaction v.
C14_DirectionOfDualProof ==
    \A c \in Calls :
        calls[c].op = "safeGet" /\ calls[c].resp # None =>
            LET state == calls[c].state
                ventry == calls[c].resp
                s == state.txId
                v == vTx(ventry)
                dualProof == ventry.verifiableTx.dualProof
            IN  /\ s <= v =>
                      /\ sourceid(state, ventry) = s
                      /\ sourcealh(state, ventry) = state.txHash
                      /\ targetid(state, ventry) = v
                      /\ targetalh(state, ventry) = alh(dualProof.targetTxMetadata)
                      /\ eh(state, ventry) = dualProof.targetTxMetadata.eH
                /\ s > v =>
                      /\ sourceid(state, ventry) = v
                      /\ sourcealh(state, ventry) = alh(dualProof.sourceTxMetadata)
                      /\ targetid(state, ventry) = s
                      /\ targetalh(state, ventry) = state.txHash
                      /\ eh(state, ventry) = dualProof.sourceTxMetadata.eH
                /\ sourceid(state, ventry) <= targetid(state, ventry)
                /\ calls[c].didSet =>
                      /\ EntryTxMetadata(state, ventry).id = v
                      /\ eh(state, ventry) = EH(v)

\* C14 witness: a call read a cache that was ahead of the entry's
\* transaction, verified in the swapped direction and reached rs.set
C14_Witness ==
    \E c \in Calls :
        /\ calls[c].op = "safeGet"
        /\ calls[c].didSet
        /\ calls[c].state.txId > vTx(calls[c].resp)
        /\ sourceid(calls[c].state, calls[c].resp) = vTx(calls[c].resp)
        /\ targetid(calls[c].state, calls[c].resp) = calls[c].state.txId

\* C16: safeGet.call takes one of two cases from the shape of the response.
\* Without a reference (referencedBy absent or with an empty key) the leaf
\* covers (key, value), the transaction id is entry.tx and refkey is None;
\* with a reference the leaf covers (referencedBy.key, entry.key,
\* referencedBy.atTx), the transaction id is referencedBy.tx and refkey is
\* referencedBy.key.  A call that returns carries that transaction id and
\* that refkey.
C16_OneCaseForLeafTxAndRefkey ==
    \A c \in Calls :
        calls[c].op = "safeGet" /\ calls[c].resp # None =>
            LET ventry == calls[c].resp
                entry == ventry.entry
                absent == entry.referencedBy = None \/ entry.referencedBy.key = ""
            IN  /\ absent =>
                      /\ kv(calls[c].key, ventry) = EncodeKV(calls[c].key, entry.value)
                      /\ vTx(ventry) = entry.tx
                      /\ refkey(ventry) = None
                /\ ~absent =>
                      /\ kv(calls[c].key, ventry)
                            = EncodeReference(entry.referencedBy.key, entry.key,
                                              entry.referencedBy.atTx)
                      /\ vTx(ventry) = entry.referencedBy.tx
                      /\ refkey(ventry) = entry.referencedBy.key
                /\ calls[c].out.kind = "returned" =>
                      /\ calls[c].out.resp.index = vTx(ventry)
                      /\ calls[c].out.resp.refkey = refkey(ventry)
                      /\ InclusionVerifies(calls[c].key, calls[c].state, ventry)

\* C16 witness: a call has returned a reference whose transaction is not the
\* one of the entry it points at
C16_Witness ==
    \E c \in Calls :
        /\ calls[c].op = "safeGet"
        /\ calls[c].out.kind = "returned"
        /\ ~IsPlain(calls[c].resp)
        /\ calls[c].out.resp.refkey = calls[c].resp.entry.referencedBy.key
        /\ calls[c].out.resp.index = calls[c].resp.entry.referencedBy.tx
        /\ calls[c].out.resp.index # calls[c].resp.entry.tx

\* C17: a safeGet call for key k returns only if the leaf that passed the
\* inclusion check was computed over k: as the key of a plain entry, or as
\* the referring key of a reference.
C17_ReturnedEntryIsForRequestedKey ==
    \A c \in Calls :
        calls[c].op = "safeGet" /\ calls[c].out.kind = "returned" =>
            Digest(kv(calls[c].key, calls[c].resp)).h.a = calls[c].key

====
